---------------------------- MODULE Spec2Model ----------------------------
(***************************************************************************)
(* SpeechWell webhook server (webhook_server.py): the result buffer, the   *)
(* webhook handler, the signature check and the text-scoring functions of  *)
(* SpeechAnalyzer.                                                         *)
(*                                                                         *)
(* Conventions.  A text is a sequence of one-character strings.  Seconds   *)
(* are counted in tenths (8.2 s is 82), so that 0.5 s per word stays an    *)
(* integer.  A quotient the code computes in floating point is kept as an  *)
(* exact fraction [num, den].  An optional field (dict.get with a default) *)
(* is a sequence of length 0 (absent) or 1 (present).                      *)
(***************************************************************************)
EXTENDS Integers, Sequences, FiniteSets, TLC

VARIABLES
    recent_results,   \* the deque of stored results, oldest first
    stored,           \* history: every result ever appended, in order
    returned,         \* value returned by the last direct call / API read
    now,              \* the wall clock (time.time(), datetime.now())
    pc,               \* handler -> position in handle_elevenlabs_webhook
    request,          \* handler -> the request it serves
    running,          \* the handler the event loop is executing, or <<>>
    payload,          \* handler -> parsed payload (option)
    user_segments,    \* handler -> the list of user segments
    has_real_timing,  \* handler -> the timing decision of line 399
    total_analysis,   \* handler -> the session accumulator of line 415
    session,          \* handler -> scores/composite/interpretation (option)
    response,         \* handler -> the HTTP response (status_code 0 before)
    appends,          \* history: handler -> number of appends it made
    finished,         \* history: the handlers that have answered, in order
    sig_in,           \* input of verify_webhook_signature
    sig_out,          \* its outcome (option)
    est_in,           \* input transcript of estimate_timing_from_conversation
    est_out,          \* its result (option)
    text_in,          \* input text of the per-text analysers
    text_out,         \* result of the analyser applied last (option)
    agg_in,           \* input segments of a session processed in one piece
    agg_out           \* its accumulator and report (option)

vars == <<recent_results, stored, returned, now, pc, request, running, payload,
          user_segments, has_real_timing, total_analysis, session, response,
          appends, finished, sig_in, sig_out, est_in, est_out, text_in, text_out,
          agg_in, agg_out>>

storeVars == <<recent_results, stored, returned>>
handlerVars == <<pc, request, running, payload, user_segments, has_real_timing,
                 total_analysis, session, response, appends, finished>>
sigVars == <<sig_in, sig_out>>
estVars == <<est_in, est_out>>
textVars == <<text_in, text_out>>
aggVars == <<agg_in, agg_out>>

-----------------------------------------------------------------------------
(* Arithmetic helpers *)

Min(a, b) == IF a <= b THEN a ELSE b
Max(a, b) == IF a >= b THEN a ELSE b

RECURSIVE SumSeq(_)
SumSeq(s) == IF s = <<>> THEN 0 ELSE Head(s) + SumSeq(Tail(s))

\* an optional value
None == <<>>
Some(v) == <<v>>

-----------------------------------------------------------------------------
(* Python string operations on texts *)

Whitespace == {" ", "\t", "\n"}

UpperCase == <<"A","B","C","D","E","F","G","H","I","J","K","L","M",
               "N","O","P","Q","R","S","T","U","V","W","X","Y","Z">>
LowerCase == <<"a","b","c","d","e","f","g","h","i","j","k","l","m",
               "n","o","p","q","r","s","t","u","v","w","x","y","z">>

\* str.lower(), one character
LowerChar(c) ==
    IF \E i \in 1..26 : UpperCase[i] = c
    THEN LowerCase[CHOOSE i \in 1..26 : UpperCase[i] = c]
    ELSE c

\* str.lower()
Lower(text) == [i \in 1..Len(text) |-> LowerChar(text[i])]

\* the least element of a non-empty set of integers
Least(S) == CHOOSE x \in S : \A y \in S : x <= y

\* the elements of a finite set of integers, in ascending order
Ascending(S) ==
    [k \in 1..Cardinality(S) |->
        CHOOSE x \in S : Cardinality({y \in S : y <= x}) = k]

\* the positions where a run of non-whitespace characters starts
WordStarts(text) ==
    {i \in 1..Len(text) :
        text[i] \notin Whitespace /\ (i = 1 \/ text[i - 1] \in Whitespace)}

\* the position where the run of non-whitespace characters at i ends
WordEnd(text, i) ==
    Least({j \in i..Len(text) : j = Len(text) \/ text[j + 1] \in Whitespace})

\* str.split(): the maximal runs of non-whitespace characters
Split(text) ==
    LET starts == Ascending(WordStarts(text))
    IN  [k \in 1..Len(starts) |-> SubSeq(text, starts[k], WordEnd(text, starts[k]))]

\* a count that leaves out the words ending in an ellipsis
WordCountNoEllipsis(text) ==
    LET words == Split(text)
    IN  Cardinality({k \in 1..Len(words) :
            ~(Len(words[k]) >= 3 /\ SubSeq(words[k], Len(words[k]) - 2, Len(words[k])) = <<".", ".", ".">>)})

\* len(text.split())
WordCount(text) == Len(Split(text))

StartsAt(text, pat, i) ==
    /\ i + Len(pat) - 1 <= Len(text)
    /\ \A j \in 1..Len(pat) : text[i + j - 1] = pat[j]

RECURSIVE CountFrom(_, _, _)
\* the occurrences counted from position i on: the leftmost one, then the
\* ones after its end
CountFrom(text, pat, i) ==
    LET matches == {j \in i..Len(text) : StartsAt(text, pat, j)}
    IN  IF matches = {} THEN 0
        ELSE 1 + CountFrom(text, pat, Least(matches) + Len(pat))

\* str.count(pat): non-overlapping occurrences, scanning from the left
Count(text, pat) == CountFrom(text, pat, 1)

\* sum(text.count(m) for m in markers)
CountAll(text, markers) == SumSeq([k \in 1..Len(markers) |-> Count(text, markers[k])])

\* str.endswith(pat)
EndsWith(text, pat) ==
    Len(pat) <= Len(text) /\ StartsAt(text, pat, Len(text) - Len(pat) + 1)

\* str.split(ch): the pieces between occurrences of ch, empty ones kept
SplitOn(text, ch) ==
    LET seps == Ascending({i \in 1..Len(text) : text[i] = ch})
        n == Len(seps)
    IN  [k \in 1..(n + 1) |->
            SubSeq(text,
                   IF k = 1 THEN 1 ELSE seps[k - 1] + 1,
                   IF k = n + 1 THEN Len(text) ELSE seps[k] - 1)]

RECURSIVE LStrip(_)
LStrip(text) ==
    IF text # <<>> /\ Head(text) \in Whitespace THEN LStrip(Tail(text)) ELSE text

RECURSIVE RStrip(_)
RStrip(text) ==
    IF text # <<>> /\ text[Len(text)] \in Whitespace
    THEN RStrip(SubSeq(text, 1, Len(text) - 1))
    ELSE text

\* str.strip()
Strip(text) == RStrip(LStrip(text))

RECURSIVE DropEmpty(_)
DropEmpty(s) ==
    IF s = <<>> THEN <<>>
    ELSE IF Head(s) # <<>> THEN <<Head(s)>> \o DropEmpty(Tail(s))
         ELSE DropEmpty(Tail(s))

\* [s.strip() for s in text.split('.') if s.strip()]
Sentences(text) ==
    LET pieces == SplitOn(text, ".")
    IN  DropEmpty([k \in 1..Len(pieces) |-> Strip(pieces[k])])

\* len(text.replace(' ', ''))
CharCount(text) == Cardinality({i \in 1..Len(text) : text[i] # " "})

-----------------------------------------------------------------------------
(* Fractions: the exact value of a floating-point quotient *)

Frac(n, d) == [num |-> n, den |-> d]

\* f < k, f >= k for an integer k (den > 0)
FracLt(f, k) == f.num < k * f.den
FracGe(f, k) == f.num >= k * f.den

\* round(a / b) to the nearest integer, b > 0, a >= 0
RoundDiv(a, b) == (2 * a + b) \div (2 * b)

-----------------------------------------------------------------------------
(* Marker lists of SpeechAnalyzer *)

Dots2 == <<".", ".">>
Dots3 == <<".", ".", ".">>
SpacedDots3 == <<" ", ".", ".", ".", " ">>
SpacedDash == <<" ", "-", " ">>
Comma == <<",">>
\* the one-character ellipsis of line 129, written U+2026
EllipsisChar == <<"U+2026">>

\* line 91: tokens that add 0.5 s to an estimated duration
HesitationWords ==
    << <<"u", "m">>,
       <<"u", "h">>,
       <<"e", "r">>,
       <<"a", "h">> >>

\* line 161
CorrectionMarkers ==
    << <<"i", " ", "m", "e", "a", "n">>,
       <<"n", "o">>,
       <<"a", "c", "t", "u", "a", "l", "l", "y">>,
       <<"s", "o", "r", "r", "y">>,
       <<"l", "e", "t", " ", "m", "e">>,
       <<"o", "r", " ", "r", "a", "t", "h", "e", "r">> >>

\* line 170
Fillers ==
    << <<"u", "m">>,
       <<"u", "h">>,
       <<"e", "r">>,
       <<"a", "h">>,
       <<"l", "i", "k", "e">>,
       <<"y", "o", "u", " ", "k", "n", "o", "w">>,
       <<"w", "e", "l", "l">> >>

\* line 232
Hesitations ==
    << <<"u", "m">>,
       <<"u", "h">>,
       <<"e", "r">>,
       <<"a", "h">>,
       <<"h", "m", "m">> >>

\* line 237
Revisions ==
    << <<"i", " ", "m", "e", "a", "n">>,
       <<"n", "o">>,
       <<"a", "c", "t", "u", "a", "l", "l", "y">>,
       <<"w", "a", "i", "t">>,
       <<"s", "o", "r", "r", "y">>,
       <<"l", "e", "t", " ", "m", "e", " ", "t", "r", "y">> >>

-----------------------------------------------------------------------------
(* Transcript turns and user segments *)

\* turn.get('role') == 'user' and turn.get('message')
IsUserSpeech(turn) ==
    turn.role = "user" /\ turn.message # None /\ turn.message[1] # <<>>

\* turn.get('duration', 0), turn.get('timestamp', 0)
GetOr(opt, default) == IF opt = None THEN default ELSE opt[1]

RECURSIVE ExtractLoop(_, _, _)
ExtractLoop(transcript, i, user_segs) ==
    IF i > Len(transcript) THEN user_segs
    ELSE LET turn == transcript[i]
         IN  IF IsUserSpeech(turn)
             THEN ExtractLoop(transcript, i + 1,
                      Append(user_segs,
                             [text |-> turn.message[1],
                              timestamp |-> GetOr(turn.timestamp, 0),
                              duration |-> GetOr(turn.duration, 0),
                              estimated |-> None]))
             ELSE ExtractLoop(transcript, i + 1, user_segs)

\* SpeechAnalyzer.extract_user_speech_segments
ExtractUserSpeechSegments(transcript) == ExtractLoop(transcript, 1, <<>>)

\* line 90: text.count('...') + text.count('..') + text.count(' ... ')
PauseIndicators(text) ==
    Count(text, Dots3) + Count(text, Dots2) + Count(text, SpacedDots3)

\* line 91: the words of the lowered text that are hesitation words
HesitationWordCount(text) ==
    LET words == Split(Lower(text))
    IN  Cardinality({k \in 1..Len(words) :
                        \E h \in 1..Len(HesitationWords) : words[k] = HesitationWords[h]})

\* an estimate that forgets the time added for pauses
EstimatedDurationNoPauses(text) ==
    WordCount(text) * 5 + HesitationWordCount(text) * 5

\* lines 84-97: the estimated duration of one message, in tenths of a second
EstimatedDuration(text) ==
    LET word_count == WordCount(text)
        base_duration == word_count * 5
        pause_indicators == PauseIndicators(text)
        hesitation_words == HesitationWordCount(text)
        pause_time == pause_indicators * 10
        hesitation_time == hesitation_words * 5
    IN  base_duration + pause_time + hesitation_time

\* line 106: cumulative_time after a user turn of the given duration
AdvanceClock(cumulative_time, estimated_duration) ==
    cumulative_time + estimated_duration + 20

RECURSIVE EstimateLoop(_, _, _, _)
EstimateLoop(transcript, i, cumulative_time, user_segs) ==
    IF i > Len(transcript) THEN user_segs
    ELSE LET turn == transcript[i]
         IN  IF IsUserSpeech(turn)
             THEN LET text == turn.message[1]
                      estimated_duration == EstimatedDuration(text)
                  IN  EstimateLoop(transcript, i + 1,
                          AdvanceClock(cumulative_time, estimated_duration),
                          Append(user_segs,
                                 [text |-> text,
                                  timestamp |-> cumulative_time,
                                  duration |-> estimated_duration,
                                  estimated |-> Some(TRUE)]))
             ELSE EstimateLoop(transcript, i + 1, cumulative_time, user_segs)

\* SpeechAnalyzer.estimate_timing_from_conversation
EstimateTimingFromConversation(transcript) == EstimateLoop(transcript, 1, 0, <<>>)

-----------------------------------------------------------------------------
(* Per-text analysers *)

\* SpeechAnalyzer.calculate_speech_rate, in hundredths of a word per minute
\* (round(x, 2)); duration in tenths of a second
CalculateSpeechRate(text, duration) ==
    IF duration <= 0 THEN 0
    ELSE RoundDiv(WordCount(text) * 60000, duration)

RECURSIVE RunEnd(_, _, _)
\* the index after the run of characters of set cs that starts at i
RunEnd(text, cs, i) ==
    IF i <= Len(text) /\ text[i] \in cs THEN RunEnd(text, cs, i + 1) ELSE i

RECURSIVE RunsFrom(_, _, _, _)
\* re.findall of "c{n,}": the maximal runs of character c of length >= n
RunsFrom(text, c, n, i) ==
    LET found == {j \in i..Len(text) : text[j] = c}
    IN  IF found = {} THEN 0
        ELSE LET e == RunEnd(text, {c}, Least(found))
             IN  (IF e - Least(found) >= n THEN 1 ELSE 0) + RunsFrom(text, c, n, e)

\* where a match of \s*\.\s*\.\s*\. that starts at i ends, or 0
SpacedPeriodsEnd(text, i) ==
    LET a == RunEnd(text, Whitespace, i)
    IN  IF a > Len(text) \/ text[a] # "." THEN 0
        ELSE LET b == RunEnd(text, Whitespace, a + 1)
             IN  IF b > Len(text) \/ text[b] # "." THEN 0
                 ELSE LET c == RunEnd(text, Whitespace, b + 1)
                      IN  IF c > Len(text) \/ text[c] # "." THEN 0 ELSE c + 1

RECURSIVE SpacedPeriodsFrom(_, _)
\* re.findall: the leftmost match from i on, then the ones after its end
SpacedPeriodsFrom(text, i) ==
    LET found == {j \in i..Len(text) : SpacedPeriodsEnd(text, j) > 0}
    IN  IF found = {} THEN 0
        ELSE 1 + SpacedPeriodsFrom(text, SpacedPeriodsEnd(text, Least(found)))

\* SpeechAnalyzer.count_pauses: the four patterns, each counted on its own
CountPauses(text) ==
    RunsFrom(text, ".", 2, 1) + Count(text, EllipsisChar)
    + RunsFrom(text, " ", 2, 1) + SpacedPeriodsFrom(text, 1)

\* SpeechAnalyzer.analyze_language_patterns
AnalyzeLanguagePatterns(text) ==
    LET words == Split(Lower(text))
        sentences == Sentences(text)
    IN  [word_repetitions |->
            Cardinality({i \in 1..(Len(words) - 1) :
                            words[i] = words[i + 1] /\ Len(words[i]) > 2}),
         self_corrections |-> CountAll(Lower(text), CorrectionMarkers),
         incomplete_thoughts |->
            IF EndsWith(text, Dots3) \/ Count(text, Dots3) > 0
            THEN Count(text, Dots3) ELSE 0,
         filler_words |-> CountAll(Lower(text), Fillers),
         complex_words_attempted |->
            Cardinality({i \in 1..Len(words) : Len(words[i]) > 6}),
         sentence_fragments |->
            Cardinality({k \in 1..Len(sentences) : WordCount(sentences[k]) < 3})]

\* lines 205-213: the clarity score from the three checks
ClarityScore(sentence_completion_rate, average_sentence_length, phrase_breaks, words) ==
    LET p1 == IF FracLt(sentence_completion_rate, 70) THEN 20 ELSE 0
        p2 == IF FracLt(average_sentence_length, 3) THEN 15 ELSE 0
        p3 == IF phrase_breaks * 10 > words * 3 THEN 10 ELSE 0
    IN  Max(0, 100 - p1 - p2 - p3)

\* SpeechAnalyzer.analyze_communication_effectiveness
AnalyzeCommunicationEffectiveness(text) ==
    LET sentences == Sentences(text)
        n == Len(sentences)
        sentence_lengths == [k \in 1..n |-> WordCount(sentences[k])]
        complete_sentences ==
            Cardinality({k \in 1..n : sentence_lengths[k] >= 3
                                      /\ ~EndsWith(sentences[k], Dots3)})
        average_sentence_length ==
            IF n > 0 THEN Frac(SumSeq(sentence_lengths), n) ELSE Frac(0, 1)
        sentence_completion_rate ==
            IF n > 0 THEN Frac(complete_sentences * 100, n) ELSE Frac(0, 1)
        phrase_breaks == Count(text, Comma) + Count(text, Dots3) + Count(text, Dots2)
    IN  [sentence_completion_rate |-> sentence_completion_rate,
         average_sentence_length |-> average_sentence_length,
         phrase_breaks |-> phrase_breaks,
         message_clarity_score |->
            ClarityScore(sentence_completion_rate, average_sentence_length,
                         phrase_breaks, WordCount(text))]

\* lines 245-247: total_disruptions
TotalDisruptions(hesitation_count, revision_count, interruptions) ==
    hesitation_count + revision_count + interruptions

\* a fluency score whose penalty is 100 points per disruption per word
FluencyScoreHalfPenalty(total_disruptions, word_count) ==
    IF word_count > 0
    THEN LET penalty == Min(80 * word_count, total_disruptions * 100)
         IN  Frac(Max(20 * word_count, 100 * word_count - penalty), word_count)
    ELSE Frac(100, 1)

\* lines 249-253: the fluency score as a fraction; 100 when there are no words
FluencyScore(total_disruptions, word_count) ==
    IF word_count > 0
    THEN LET penalty == Min(80 * word_count, total_disruptions * 200)
         IN  Frac(Max(20 * word_count, 100 * word_count - penalty), word_count)
    ELSE Frac(100, 1)

\* SpeechAnalyzer.analyze_verbal_fluency
AnalyzeVerbalFluency(text) ==
    LET text_lower == Lower(text)
        word_count == WordCount(text)
        hesitation_count == CountAll(text_lower, Hesitations)
        revision_count == CountAll(text_lower, Revisions)
        interruptions == Count(text, Dots3) + Count(text, Dots2)
                         + Count(text, SpacedDash)
        total_disruptions ==
            TotalDisruptions(hesitation_count, revision_count, interruptions)
    IN  [fluency_disruptions |-> total_disruptions,
         hesitation_frequency |-> hesitation_count,
         revision_attempts |-> revision_count,
         flow_interruptions |-> interruptions,
         overall_fluency_score |-> FluencyScore(total_disruptions, word_count)]

\* words per second with the duration itself as the divisor
SpeechDensityUnguarded(word_count, duration) == Frac(word_count * 10, duration)

\* line 283: word_count / max(duration, 1), words per second
SpeechDensity(word_count, duration) == Frac(word_count * 10, Max(duration, 10))

\* SpeechAnalyzer.analyze_speech_segment
AnalyzeSpeechSegment(segment) ==
    LET text == segment.text
        duration == segment.duration
        is_estimated == GetOr(segment.estimated, FALSE)
        word_count == WordCount(text)
        char_count == CharCount(text)
        speech_rate == CalculateSpeechRate(text, duration)
        pause_count == CountPauses(text)
        language_patterns == AnalyzeLanguagePatterns(text)
        communication_effectiveness == AnalyzeCommunicationEffectiveness(text)
        verbal_fluency == AnalyzeVerbalFluency(text)
    IN  [text |-> text,
         duration_seconds |-> duration,
         timing_estimated |-> is_estimated,
         word_count |-> word_count,
         character_count |-> char_count,
         speech_rate_wpm |-> speech_rate,
         pause_count |-> pause_count,
         speech_density |-> SpeechDensity(word_count, duration),
         avg_word_length |-> Frac(char_count, Max(word_count, 1)),
         communication_challenges |->
            [slow_speech_rate |-> IF speech_rate > 0 THEN speech_rate < 10000 ELSE FALSE,
             frequent_pauses |-> pause_count * 100 > word_count * 15,
             short_responses |-> word_count < 5,
             word_finding_difficulty |-> language_patterns.filler_words > 2,
             incomplete_thoughts |-> language_patterns.incomplete_thoughts > 0,
             frequent_self_corrections |-> language_patterns.self_corrections > 1,
             communication_breakdown |->
                communication_effectiveness.message_clarity_score < 60],
         language_patterns |-> language_patterns,
         communication_effectiveness |-> communication_effectiveness,
         verbal_fluency |-> verbal_fluency]

-----------------------------------------------------------------------------
(* The result store *)

\* line 32: deque(maxlen=10)
MaxLen == 10

\* the last value the model's clock takes
MaxTicks == 1

\* what a read of the clock may return when the last read returned t
ClockReads(t) == t..Max(t, MaxTicks)

\* a buffer that, once full, refuses the new result instead of evicting
DequeAppendKeepOldest(dq, x) ==
    IF Len(dq) >= MaxLen THEN dq ELSE Append(dq, x)

\* deque.append on a deque of maxlen MaxLen: the oldest entry leaves when full
DequeAppend(dq, x) ==
    LET a == Append(dq, x)
    IN  IF Len(a) > MaxLen THEN Tail(a) ELSE a

\* lines 36-40: the record store_analysis_result builds
StoredResult(conversation_id, analysis_data, clock) ==
    [conversation_id |-> conversation_id,
     timestamp |-> clock,
     analysis |-> analysis_data]

\* a store that overwrites the newest entry instead of appending
StoreAnalysisResultOverwriting(conversation_id, analysis_data) ==
    /\ now' \in ClockReads(now)
    /\ LET result == StoredResult(conversation_id, analysis_data, now')
       IN  /\ recent_results' =
                 IF recent_results = <<>> THEN <<result>>
                 ELSE [recent_results EXCEPT ![Len(recent_results)] = result]
           /\ stored' = Append(stored, result)

\* store_analysis_result: its effect on the buffer (and on the history).
\* datetime.now() reads the clock, which has not gone back since the last read
StoreAnalysisResult(conversation_id, analysis_data) ==
    /\ now' \in ClockReads(now)
    /\ LET result == StoredResult(conversation_id, analysis_data, now')
       IN  /\ recent_results' = DequeAppend(recent_results, result)
           /\ stored' = Append(stored, result)

\* GET /api/latest-results
LatestResultsResponse(dq) ==
    [status |-> "success", results |-> dq, count |-> Len(dq)]

\* GET /api/latest-result
LatestResultResponse(dq) ==
    IF dq # <<>>
    THEN [status |-> "success", result |-> dq[Len(dq)]]
    ELSE [status |-> "no_results", message |-> "No results yet"]

-----------------------------------------------------------------------------
(* Session aggregation (process_transcription_webhook, lines 414-576) *)

RECURSIVE Gcd(_, _)
Gcd(a, b) == IF b = 0 THEN a ELSE Gcd(b, a % b)

\* the same value in lowest terms (num >= 0, den > 0)
Reduce(f) ==
    LET g == Gcd(f.num, f.den)
    IN  Frac(f.num \div g, f.den \div g)

FracAdd(a, b) == Reduce(Frac(a.num * b.den + b.num * a.den, a.den * b.den))

RECURSIVE FracSum(_)
FracSum(s) == IF s = <<>> THEN Frac(0, 1) ELSE FracAdd(Head(s), FracSum(Tail(s)))

\* lines 415-420
EmptyTotals ==
    [total_words |-> 0, total_duration |-> 0, total_pauses |-> 0, segments |-> <<>>]

\* an accumulator that puts the new analysis in front of the others
AddToTotalsInFront(total, analysis) ==
    [total_words |-> total.total_words + analysis.word_count,
     total_duration |-> total.total_duration + analysis.duration_seconds,
     total_pauses |-> total.total_pauses + analysis.pause_count,
     segments |-> <<analysis>> \o total.segments]

\* lines 461-465
AddToTotals(total, analysis) ==
    [total_words |-> total.total_words + analysis.word_count,
     total_duration |-> total.total_duration + analysis.duration_seconds,
     total_pauses |-> total.total_pauses + analysis.pause_count,
     segments |-> Append(total.segments, analysis)]

ScoreKeys ==
    {"message_clarity", "verbal_fluency", "sentence_completion",
     "repetition_control", "correction_frequency", "filler_control"}

\* session scores whose three pattern terms are not floored at 0
SegmentScoreUnfloored(sa, key) ==
    LET lang == sa.language_patterns
        eff == sa.communication_effectiveness
        flu == sa.verbal_fluency
    IN  CASE key = "message_clarity" -> Frac(eff.message_clarity_score, 1)
          [] key = "verbal_fluency" -> flu.overall_fluency_score
          [] key = "sentence_completion" -> eff.sentence_completion_rate
          [] key = "repetition_control" -> Frac(100 - lang.word_repetitions * 20, 1)
          [] key = "correction_frequency" -> Frac(100 - lang.self_corrections * 15, 1)
          [] key = "filler_control" -> Frac(100 - lang.filler_words * 10, 1)

\* lines 497-502: what one segment adds to each session score
SegmentScore(sa, key) ==
    LET lang == sa.language_patterns
        eff == sa.communication_effectiveness
        flu == sa.verbal_fluency
    IN  CASE key = "message_clarity" -> Frac(eff.message_clarity_score, 1)
          [] key = "verbal_fluency" -> flu.overall_fluency_score
          [] key = "sentence_completion" -> eff.sentence_completion_rate
          [] key = "repetition_control" ->
                Frac(Max(0, 100 - lang.word_repetitions * 20), 1)
          [] key = "correction_frequency" ->
                Frac(Max(0, 100 - lang.self_corrections * 15), 1)
          [] key = "filler_control" ->
                Frac(Max(0, 100 - lang.filler_words * 10), 1)

\* lines 481-506: the six averaged session scores
SessionScores(segments) ==
    LET segment_count == Len(segments)
    IN  [key \in ScoreKeys |->
            IF segment_count > 0
            THEN LET sum == FracSum([i \in 1..segment_count |->
                                        SegmentScore(segments[i], key)])
                 IN  Reduce(Frac(sum.num, sum.den * segment_count))
            ELSE Frac(0, 1)]

\* lines 518-525: the weights, in hundredths
Weights ==
    [message_clarity |-> 25, verbal_fluency |-> 25, sentence_completion |-> 20,
     repetition_control |-> 10, correction_frequency |-> 10, filler_control |-> 10]

ScoreOrder ==
    <<"message_clarity", "verbal_fluency", "sentence_completion",
      "repetition_control", "correction_frequency", "filler_control">>

\* lines 518-525
CompositeScore(session_scores) ==
    FracSum([i \in 1..Len(ScoreOrder) |->
                LET s == session_scores[ScoreOrder[i]]
                IN  Reduce(Frac(s.num * Weights[ScoreOrder[i]], s.den * 100))])

\* an interpretation whose first band starts above 80
InterpretationStrict(composite_score) ==
    IF ~FracGe(composite_score, 80) \/ composite_score.num = 80 * composite_score.den
    THEN IF FracGe(composite_score, 60) THEN "Good communication with minor challenges"
         ELSE IF FracGe(composite_score, 40) THEN "Moderate communication challenges present"
         ELSE "Significant communication support needed"
    ELSE "Excellent communication effectiveness"

\* lines 530-541
Interpretation(composite_score) ==
    IF FracGe(composite_score, 80) THEN "Excellent communication effectiveness"
    ELSE IF FracGe(composite_score, 60) THEN "Good communication with minor challenges"
    ELSE IF FracGe(composite_score, 40) THEN "Moderate communication challenges present"
    ELSE "Significant communication support needed"

\* lines 571-576
ClosingRemark(composite_score) ==
    IF FracGe(composite_score, 80) THEN "Continue current practice - excellent progress!"
    ELSE IF FracGe(composite_score, 60) THEN "Focus on identified challenge areas"
    ELSE "Consider more intensive therapy support"

\* lines 558-569: the rule-based recommendations, in the order they are printed
Recommendations(session_scores) ==
    (IF FracLt(session_scores["message_clarity"], 70)
        THEN <<"Focus on sentence structure and clarity exercises">> ELSE <<>>)
    \o (IF FracLt(session_scores["verbal_fluency"], 70)
        THEN <<"Practice fluency-building exercises">> ELSE <<>>)
    \o (IF FracLt(session_scores["sentence_completion"], 70)
        THEN <<"Work on completing thoughts and sentences">> ELSE <<>>)
    \o (IF FracLt(session_scores["filler_control"], 80)
        THEN <<"Practice reducing filler words (um, uh)">> ELSE <<>>)
    \o (IF FracLt(session_scores["repetition_control"], 80)
        THEN <<"Focus on reducing word repetitions">> ELSE <<>>)
    \o (IF FracLt(session_scores["correction_frequency"], 80)
        THEN <<"Practice organizing thoughts before speaking">> ELSE <<>>)

\* lines 468-576: everything computed inside "if total_duration > 0"
SessionReport(total) ==
    LET overall_speech_rate == Frac(total.total_words * 600, total.total_duration)
        pause_rate == Frac(total.total_pauses, Max(total.total_words, 1))
        session_scores == SessionScores(total.segments)
        composite_score == CompositeScore(session_scores)
    IN  [overall_speech_rate |-> overall_speech_rate,
         pause_rate |-> pause_rate,
         session_scores |-> session_scores,
         composite_score |-> composite_score,
         interpretation |-> Interpretation(composite_score),
         rate_below_normal |-> FracLt(overall_speech_rate, 100),
         high_pause_frequency |-> pause_rate.num * 10 > pause_rate.den,
         recommendations |-> Recommendations(session_scores),
         closing_remark |-> ClosingRemark(composite_score)]

-----------------------------------------------------------------------------
(* verify_webhook_signature.  A header is a sequence of tokens: "," and    *)
(* "=" are the separators, every other token is a run of other characters. *)
(* A body is a record; str(body bytes) is named by ToString.               *)

\* line 45
WEBHOOK_SECRET == "wsec_fc1f6f93b5f48eaa24326b5ccacf01d85a9b23b861ed7d4ca85b033401178e05"

\* line 319: 30 * 60 seconds
MaxAgeSeconds == 1800

\* the decimal tokens of the model and the integers int() reads from them
IntOfToken == ("0" :> 0) @@ ("100" :> 100) @@ ("5000" :> 5000)

RECURSIVE Concat(_)
\* the string a run of tokens spells
Concat(tokens) == IF tokens = <<>> THEN "" ELSE Head(tokens) \o Concat(Tail(tokens))

\* hmac.new(secret, msg, sha256).hexdigest(): one digest per (secret, msg)
HexDigest(secret, msg) == "hmac-sha256(" \o secret \o "|" \o msg \o ")"

\* request_body.decode('utf-8'): raises on bytes that are not UTF-8
Decode(body) ==
    IF body.kind = "bad_utf8"
    THEN [exc |-> "UnicodeDecodeError", text |-> ""]
    ELSE [exc |-> "", text |-> ToString(body)]

\* lines 312-332, the body of the try block: the exception it raises ("" for
\* none) and the value it returns
VerifyTry(request_body, signature_header, current_time) ==
    LET parts == SplitOn(signature_header, ",")
        first == SplitOn(parts[1], "=")
        second == SplitOn(parts[2], "=")
    IN  IF Len(first) < 2 \/ Len(parts) < 2 THEN [exc |-> "IndexError", value |-> FALSE]
        ELSE IF Len(second) < 2 THEN [exc |-> "IndexError", value |-> FALSE]
        ELSE LET timestamp == first[2]
                 signature == second[2]
             IN  IF Len(timestamp) # 1 \/ timestamp[1] \notin DOMAIN IntOfToken
                 THEN [exc |-> "ValueError", value |-> FALSE]
                 ELSE IF current_time - IntOfToken[timestamp[1]] > MaxAgeSeconds
                 THEN [exc |-> "", value |-> FALSE]
                 ELSE LET decoded == Decode(request_body)
                          payload_to_sign == Concat(timestamp) \o "." \o decoded.text
                          expected_signature == HexDigest(WEBHOOK_SECRET, payload_to_sign)
                      IN  IF decoded.exc # ""
                          THEN [exc |-> decoded.exc, value |-> FALSE]
                          ELSE [exc |-> "",
                                value |-> ("v0=" \o expected_signature)
                                          = ("v0=" \o Concat(signature))]

\* verify_webhook_signature: `header` is None (absent) or Some(tokens)
VerifyWebhookSignature(request_body, header, current_time) ==
    IF header = None \/ header[1] = <<>>
    THEN [raised |-> "", result |-> FALSE]
    ELSE LET try == VerifyTry(request_body, header[1], current_time)
         IN  IF try.exc # ""
             THEN [raised |-> "", result |-> FALSE]
             ELSE [raised |-> "", result |-> try.value]

\* the header ElevenLabs sends for a body at time ts (a token of IntOfToken)
SignedHeader(body, ts) ==
    <<"t", "=", ts, ",", "v0", "=",
      HexDigest(WEBHOOK_SECRET, ts \o "." \o Decode(body).text)>>

-----------------------------------------------------------------------------
(* Requests and payloads *)

\* json.loads(body.decode('utf-8')): the exception it raises ("" for none)
\* and the value it yields
JsonLoads(body) ==
    CASE body.kind = "bad_utf8" -> [exc |-> "UnicodeDecodeError", value |-> None]
      [] body.kind = "bad_json" -> [exc |-> "JSONDecodeError", value |-> None]
      [] body.kind = "json" -> [exc |-> "", value |-> Some(body.value)]

\* lines 369-374: the HTTPException raised for an exception
ResponseToException(exc) ==
    IF exc = "JSONDecodeError"
    THEN [status_code |-> 400, content |-> "Invalid JSON payload"]
    ELSE [status_code |-> 500, content |-> "Internal server error"]

\* line 367: JSONResponse(content={"status": "received"}, status_code=200)
ReceivedResponse == [status_code |-> 200, content |-> "status: received"]

NoResponse == [status_code |-> 0, content |-> ""]

\* a decision that asks every segment, not any, for a positive duration
HasRealTimingAll(segs) == \A k \in 1..Len(segs) : segs[k].duration > 0

\* line 399: any(segment.get('duration', 0) > 0 for segment in user_segments)
HasRealTiming(segs) == \E k \in 1..Len(segs) : segs[k].duration > 0

\* lines 396-404: the segments that go on to be analysed
SegmentsToAnalyse(transcript) ==
    LET extracted == ExtractUserSpeechSegments(transcript)
    IN  IF ~HasRealTiming(extracted) /\ extracted # <<>>
        THEN EstimateTimingFromConversation(transcript)
        ELSE extracted

-----------------------------------------------------------------------------
(* handle_elevenlabs_webhook, one step per action.  The handler is a       *)
(* coroutine on a single event loop: after `await request.body()` it runs  *)
(* to its response without yielding, so at most one handler is running.    *)

Handlers == DOMAIN pc

SetPc(h, p) == pc' = [pc EXCEPT ![h] = p]

\* a request reaches the endpoint; the handler awaits its body
Receive(h, req) ==
    /\ pc[h] = "idle"
    /\ request' = [request EXCEPT ![h] = Some(req)]
    /\ SetPc(h, "await_body")
    /\ UNCHANGED <<running, payload, user_segments, has_real_timing,
                   total_analysis, session, response, appends, finished>>
    /\ UNCHANGED <<storeVars, now, sigVars, estVars, textVars, aggVars>>

\* lines 350-357 and 369-374: parse the body; a failure answers at once
ParseBody(h) ==
    /\ pc[h] = "await_body"
    /\ running = None
    /\ LET parsed == JsonLoads(request[h][1].body)
           \* payload.get on a value that is no dict raises AttributeError
           exc == IF parsed.exc # "" THEN parsed.exc
                  ELSE IF ~parsed.value[1].isobj THEN "AttributeError" ELSE ""
       IN  IF exc # ""
           THEN /\ response' = [response EXCEPT ![h] = ResponseToException(exc)]
                /\ finished' = Append(finished, h)
                /\ SetPc(h, "done")
                /\ UNCHANGED <<running, payload>>
           ELSE /\ payload' = [payload EXCEPT ![h] = parsed.value]
                /\ running' = Some(h)
                /\ SetPc(h, "dispatch")
                /\ UNCHANGED <<response, finished>>
    /\ UNCHANGED <<request, user_segments, has_real_timing, total_analysis,
                   session, appends>>
    /\ UNCHANGED <<storeVars, now, sigVars, estVars, textVars, aggVars>>

\* the handler leaves with an exception raised while processing (line 372)
Fail(h) ==
    /\ response' = [response EXCEPT ![h] = ResponseToException("Exception")]
    /\ finished' = Append(finished, h)
    /\ running' = None
    /\ SetPc(h, "done")

\* lines 360-361, 378-420: process_transcription_webhook up to the loop
StartTranscription(h) ==
    /\ pc[h] = "dispatch"
    /\ payload[h][1].type = Some("post_call_transcription")
    /\ LET data == payload[h][1].data
       IN  IF data.kind = "null"
           THEN \* payload.get('data', {}) is None: data.get raises
                /\ Fail(h)
                /\ UNCHANGED <<user_segments, has_real_timing, total_analysis>>
           ELSE LET transcript == GetOr(data.transcript, <<>>)
                    extracted == ExtractUserSpeechSegments(transcript)
                    segs == SegmentsToAnalyse(transcript)
                IN  /\ has_real_timing' =
                            [has_real_timing EXCEPT ![h] = HasRealTiming(extracted)]
                    /\ user_segments' = [user_segments EXCEPT ![h] = segs]
                    /\ IF segs = <<>>
                       THEN /\ SetPc(h, "respond")
                            /\ UNCHANGED total_analysis
                       ELSE /\ SetPc(h, "loop")
                            /\ total_analysis' =
                                   [total_analysis EXCEPT ![h] = Some(EmptyTotals)]
                    /\ UNCHANGED <<running, response, finished>>
    /\ UNCHANGED <<request, payload, session, appends>>
    /\ UNCHANGED <<storeVars, now, sigVars, estVars, textVars, aggVars>>

\* a loop that is left as soon as one segment has been analysed
LoopDoneEarly(total, segs) == Len(total.segments) >= Min(1, Len(segs))

\* line 422: the for loop is over when every segment has been analysed
LoopDone(total, segs) == Len(total.segments) = Len(segs)

\* an aggregation that also runs for a session of no duration
SessionCompletesAlways(total) == total.total_duration >= 0

\* line 468: if total_analysis['total_duration'] > 0
SessionCompletes(total) == total.total_duration > 0

\* lines 422-465: one iteration of the per-segment loop
AnalyzeNextSegment(h) ==
    /\ pc[h] = "loop"
    /\ Len(total_analysis[h][1].segments) < Len(user_segments[h])
    /\ LET total == total_analysis[h][1]
           segment == user_segments[h][Len(total.segments) + 1]
           analysis == AnalyzeSpeechSegment(segment)
       IN  total_analysis' =
               [total_analysis EXCEPT ![h] = Some(AddToTotals(total, analysis))]
    /\ UNCHANGED <<pc, request, running, payload, user_segments, has_real_timing,
                   session, response, appends, finished>>
    /\ UNCHANGED <<storeVars, now, sigVars, estVars, textVars, aggVars>>

\* lines 467-579: after the loop, report and store when total_duration > 0
Aggregate(h) ==
    /\ pc[h] = "loop"
    /\ LoopDone(total_analysis[h][1], user_segments[h])
    /\ LET total == total_analysis[h][1]
           conversation_id == GetOr(payload[h][1].data.conversation_id, "unknown")
       IN  IF SessionCompletes(total)
           THEN /\ session' = [session EXCEPT ![h] = Some(SessionReport(total))]
                /\ StoreAnalysisResult(conversation_id, total)
                /\ appends' = [appends EXCEPT ![h] = @ + 1]
           ELSE UNCHANGED <<session, recent_results, stored, appends, now>>
    /\ SetPc(h, "respond")
    /\ UNCHANGED <<request, running, payload, user_segments, has_real_timing,
                   total_analysis, response, finished>>
    /\ UNCHANGED <<returned, sigVars, estVars, textVars, aggVars>>

\* lines 362-363, 581-597: process_audio_webhook
ProcessAudio(h) ==
    /\ pc[h] = "dispatch"
    /\ payload[h][1].type = Some("post_call_audio")
    /\ IF payload[h][1].data.kind = "null"
       THEN Fail(h)
       ELSE SetPc(h, "respond") /\ UNCHANGED <<running, response, finished>>
    /\ UNCHANGED <<request, payload, user_segments, has_real_timing,
                   total_analysis, session, appends>>
    /\ UNCHANGED <<storeVars, now, sigVars, estVars, textVars, aggVars>>

\* lines 364-365: any other type is only logged
UnknownType(h) ==
    /\ pc[h] = "dispatch"
    /\ payload[h][1].type \notin {Some("post_call_transcription"), Some("post_call_audio")}
    /\ SetPc(h, "respond")
    /\ UNCHANGED <<request, running, payload, user_segments, has_real_timing,
                   total_analysis, session, response, appends, finished>>
    /\ UNCHANGED <<storeVars, now, sigVars, estVars, textVars, aggVars>>

\* line 367: the 200 response
Respond(h) ==
    /\ pc[h] = "respond"
    /\ response' = [response EXCEPT ![h] = ReceivedResponse]
    /\ finished' = Append(finished, h)
    /\ running' = None
    /\ SetPc(h, "done")
    /\ UNCHANGED <<request, payload, user_segments, has_real_timing,
                   total_analysis, session, appends>>
    /\ UNCHANGED <<storeVars, now, sigVars, estVars, textVars, aggVars>>

-----------------------------------------------------------------------------
(* Inputs of the webhook specification *)

MaxTurns == 2

\* "", " " and "um no.."
SampleMessages ==
    { <<>>, <<" ">>, <<"u", "m", " ", "n", "o", ".", ".">> }

\* a supplied duration of 0 s or 4.5 s
SampleDurations == {0, 45}

Turn(role, message, duration) ==
    [role |-> role, message |-> message, timestamp |-> None, duration |-> duration]

AgentTurn == Turn("agent", Some(<<"o", "k">>), Some(35))

UserTurns ==
    {Turn("user", m, d) :
        m \in {None} \cup {Some(t) : t \in SampleMessages},
        d \in {None} \cup {Some(x) : x \in SampleDurations}}

TranscriptsOver(turns, n) == UNION {[1..k -> turns] : k \in 0..n}

\* the transcripts of at most n turns
Transcripts(n) == TranscriptsOver(UserTurns \cup {AgentTurn}, n)

Data(kind, conversation_id, transcript) ==
    [kind |-> kind, conversation_id |-> conversation_id, transcript |-> transcript]

NoData == Data("absent", None, None)
NullData == Data("null", None, None)

TranscriptionData(n) ==
    {NoData, NullData}
    \cup {Data("object", c, Some(t)) :
            c \in {None, Some("conv_1")}, t \in Transcripts(n)}

Payload(isobj, type, data) == [isobj |-> isobj, type |-> type, data |-> data]

Payloads(n) ==
    {Payload(TRUE, Some("post_call_transcription"), d) : d \in TranscriptionData(n)}
    \cup {Payload(TRUE, Some("post_call_audio"), d) :
            d \in {NoData, NullData, Data("object", Some("conv_1"), None)}}
    \cup {Payload(TRUE, t, NoData) : t \in {None, Some("ping")}}
    \cup {Payload(FALSE, None, NoData)}

Bodies(n) ==
    {[kind |-> "json", value |-> p] : p \in Payloads(n)}
    \cup {[kind |-> k, value |-> Payload(FALSE, None, NoData)] :
            k \in {"bad_utf8", "bad_json"}}

\* the elevenlabs-signature header: absent, malformed, or signed at time 0
SignaturesFor(body) ==
    {None, Some(<<"t", "=", "0">>), Some(SignedHeader(body, "0"))}

\* test_webhook.py lines 11-67: the payload the test posts, durations in
\* tenths of a second, each message a sequence of characters
SampleMessage1 ==
        <<"H", "e", "l", "l", "o", "!", " ", "I", "'", "m", " ", "y",
          "o", "u", "r", " ", "s", "p", "e", "e", "c", "h", " ", "t",
          "h", "e", "r", "a", "p", "y", " ", "a", "s", "s", "i", "s",
          "t", "a", "n", "t", ".", " ", "L", "e", "t", "'", "s", " ",
          "p", "r", "a", "c", "t", "i", "c", "e", " ", "s", "o", "m",
          "e", " ", "s", "p", "e", "e", "c", "h", " ", "e", "x", "e",
          "r", "c", "i", "s", "e", "s", " ", "t", "o", "d", "a", "y",
          ".", " ", "C", "a", "n", " ", "y", "o", "u", " ", "t", "e",
          "l", "l", " ", "m", "e", " ", "a", "b", "o", "u", "t", " ",
          "y", "o", "u", "r", " ", "m", "o", "r", "n", "i", "n", "g",
          " ", "r", "o", "u", "t", "i", "n", "e", "?">>

SampleMessage2 ==
        <<"G", "o", "o", "d", ".", ".", ".", " ", "m", "o", "r", "n",
          "i", "n", "g", ".", " ", "I", ".", ".", ".", " ", "I", " ",
          "w", "o", "k", "e", " ", "u", "p", " ", "a", "t", ".", ".",
          ".", " ", "s", "e", "v", "e", "n", " ", "t", "h", "i", "r",
          "t", "y", ".", " ", "T", "h", "e", "n", " ", "I", ".", ".",
          ".", " ", "h", "a", "d", ".", ".", ".", " ", "b", "r", "e",
          "a", "k", "f", "a", "s", "t", " ", "w", "i", "t", "h", ".",
          ".", ".", " ", "m", "y", " ", "f", "a", "m", "i", "l", "y",
          ".">>

SampleMessage3 ==
        <<"T", "h", "a", "t", "'", "s", " ", "w", "o", "n", "d", "e",
          "r", "f", "u", "l", "!", " ", "I", " ", "n", "o", "t", "i",
          "c", "e", "d", " ", "y", "o", "u", "'", "r", "e", " ", "t",
          "a", "k", "i", "n", "g", " ", "y", "o", "u", "r", " ", "t",
          "i", "m", "e", " ", "w", "i", "t", "h", " ", "y", "o", "u",
          "r", " ", "w", "o", "r", "d", "s", ",", " ", "w", "h", "i",
          "c", "h", " ", "i", "s", " ", "g", "r", "e", "a", "t", " ",
          "f", "o", "r", " ", "c", "l", "a", "r", "i", "t", "y", ".",
          " ", "C", "a", "n", " ", "y", "o", "u", " ", "t", "e", "l",
          "l", " ", "m", "e", " ", "w", "h", "a", "t", " ", "y", "o",
          "u", " ", "h", "a", "d", " ", "f", "o", "r", " ", "b", "r",
          "e", "a", "k", "f", "a", "s", "t", "?">>

SampleMessage4 ==
        <<"I", " ", "h", "a", "d", ".", ".", ".", " ", "s", "c", "r",
          "a", "m", "b", "l", "e", "d", " ", "e", "g", "g", "s", ".",
          ".", ".", " ", "a", "n", "d", ".", ".", ".", " ", "t", "o",
          "a", "s", "t", ".", " ", "W", "i", "t", "h", ".", ".", ".",
          " ", "o", "r", "a", "n", "g", "e", " ", "j", "u", "i", "c",
          "e", ".">>

SampleMessage5 ==
        <<"E", "x", "c", "e", "l", "l", "e", "n", "t", "!", " ", "N",
          "o", "w", " ", "l", "e", "t", "'", "s", " ", "t", "r", "y",
          " ", "s", "a", "y", "i", "n", "g", " ", "t", "h", "a", "t",
          " ", "s", "a", "m", "e", " ", "s", "e", "n", "t", "e", "n",
          "c", "e", " ", "a", " ", "b", "i", "t", " ", "f", "a", "s",
          "t", "e", "r", ".", " ", "T", "a", "k", "e", " ", "a", " ",
          "b", "r", "e", "a", "t", "h", " ", "a", "n", "d", " ", "t",
          "e", "l", "l", " ", "m", "e", " ", "a", "b", "o", "u", "t",
          " ", "y", "o", "u", "r", " ", "b", "r", "e", "a", "k", "f",
          "a", "s", "t", " ", "a", "g", "a", "i", "n", ".">>

SampleMessage6 ==
        <<"I", " ", "h", "a", "d", " ", "s", "c", "r", "a", "m", "b",
          "l", "e", "d", " ", "e", "g", "g", "s", " ", "a", "n", "d",
          " ", "t", "o", "a", "s", "t", ".", ".", ".", " ", "w", "i",
          "t", "h", " ", "o", "r", "a", "n", "g", "e", " ", "j", "u",
          "i", "c", "e", ".">>

sample_transcript ==
    <<[role |-> "agent", message |-> Some(SampleMessage1),
       timestamp |-> Some(1000), duration |-> Some(35)],
      [role |-> "user", message |-> Some(SampleMessage2),
       timestamp |-> Some(4500), duration |-> Some(82)],
      [role |-> "agent", message |-> Some(SampleMessage3),
       timestamp |-> Some(12700), duration |-> Some(41)],
      [role |-> "user", message |-> Some(SampleMessage4),
       timestamp |-> Some(16800), duration |-> Some(63)],
      [role |-> "agent", message |-> Some(SampleMessage5),
       timestamp |-> Some(23100), duration |-> Some(38)],
      [role |-> "user", message |-> Some(SampleMessage6),
       timestamp |-> Some(26900), duration |-> Some(45)]>>

sample_transcription_webhook ==
    Payload(TRUE, Some("post_call_transcription"),
            Data("object", Some("test_conv_12345"), Some(sample_transcript)))

\* test_webhook.py lines 74-78: posted as JSON with no signature header
SampleRequest ==
    [signature |-> None,
     body |-> [kind |-> "json", value |-> sample_transcription_webhook]]

\* the requests whose transcript has at most n turns, and the test's request
Requests(n) ==
    UNION {{[signature |-> s, body |-> b] : s \in SignaturesFor(b)} : b \in Bodies(n)}
    \cup {SampleRequest}

\* a result stored by an earlier session: one user turn "um no.." of 4.5 s
PriorResult ==
    StoredResult("conv_0",
        AddToTotals(EmptyTotals,
            AnalyzeSpeechSegment(
                [text |-> <<"u", "m", " ", "n", "o", ".", ".">>, timestamp |-> 0,
                 duration |-> 45, estimated |-> None])),
        0)

-----------------------------------------------------------------------------
(* Specification of the webhook server *)

NothingReturned == [call |-> "", value |-> None]

\* the variables of the other specifications, at rest
SigIdle == sig_in = None /\ sig_out = None
EstIdle == est_in = None /\ est_out = None
TextIdle == text_in = None /\ text_out = None
AggIdle == agg_in = None /\ agg_out = None

HandlersInit(hs) ==
    /\ pc = [h \in hs |-> "idle"]
    /\ request = [h \in hs |-> None]
    /\ running = None
    /\ payload = [h \in hs |-> None]
    /\ user_segments = [h \in hs |-> <<>>]
    /\ has_real_timing = [h \in hs |-> FALSE]
    /\ total_analysis = [h \in hs |-> None]
    /\ session = [h \in hs |-> None]
    /\ response = [h \in hs |-> NoResponse]
    /\ appends = [h \in hs |-> 0]
    /\ finished = <<>>

Init ==
    /\ recent_results \in {<<>>, <<PriorResult>>}
    /\ stored = recent_results
    /\ returned = NothingReturned
    /\ now = 0
    /\ HandlersInit({"h1"})
    /\ SigIdle /\ EstIdle /\ TextIdle /\ AggIdle

Next ==
    \/ \E h \in Handlers : pc[h] = "idle" /\ \E req \in Requests(MaxTurns) : Receive(h, req)
    \/ \E h \in Handlers : ParseBody(h)
    \/ \E h \in Handlers : StartTranscription(h)
    \/ \E h \in Handlers : AnalyzeNextSegment(h)
    \/ \E h \in Handlers : Aggregate(h)
    \/ \E h \in Handlers : ProcessAudio(h)
    \/ \E h \in Handlers : UnknownType(h)
    \/ \E h \in Handlers : Respond(h)

Spec == Init /\ [][Next]_vars

-----------------------------------------------------------------------------
(* Specification of the result store: direct calls of store_analysis_result *)
(* and the two read endpoints                                               *)

MaxStores == 12

StoreIds == {"conv_1", "conv_2"}

NoHandlers == HandlersInit({})

InitStore ==
    /\ recent_results = <<>>
    /\ stored = <<>>
    /\ returned = NothingReturned
    /\ now = MaxTicks
    /\ NoHandlers
    /\ SigIdle /\ EstIdle /\ TextIdle /\ AggIdle

\* store_analysis_result(conversation_id, analysis_data); it returns None
CallStore(conversation_id, analysis_data) ==
    /\ Len(stored) < MaxStores
    /\ StoreAnalysisResult(conversation_id, analysis_data)
    /\ returned' = [call |-> "store_analysis_result", value |-> None]
    /\ UNCHANGED <<handlerVars, sigVars, estVars, textVars, aggVars>>

\* GET /api/latest-results
GetLatestResults ==
    /\ returned' = [call |-> "get_latest_results",
                    value |-> Some(LatestResultsResponse(recent_results))]
    /\ UNCHANGED <<recent_results, stored, now, handlerVars, sigVars, estVars, textVars, aggVars>>

\* GET /api/latest-result
GetLatestResult ==
    /\ returned' = [call |-> "get_latest_result",
                    value |-> Some(LatestResultResponse(recent_results))]
    /\ UNCHANGED <<recent_results, stored, now, handlerVars, sigVars, estVars, textVars, aggVars>>

NextStore ==
    \/ \E c \in StoreIds : CallStore(c, PriorResult.analysis)
    \/ GetLatestResults
    \/ GetLatestResult

SpecStore == InitStore /\ [][NextStore]_vars

-----------------------------------------------------------------------------
(* Specification of verify_webhook_signature as a function of its inputs *)

MaxParts == 2

RECURSIVE JoinWith(_, _)
\* sep.join(pieces), on token sequences
JoinWith(pieces, sep) ==
    IF Len(pieces) = 0 THEN <<>>
    ELSE IF Len(pieces) = 1 THEN pieces[1]
    ELSE pieces[1] \o <<sep>> \o JoinWith(Tail(pieces), sep)

SigBodies ==
    {[kind |-> "json", value |-> Payload(TRUE, None, NoData)],
     [kind |-> "bad_utf8", value |-> Payload(FALSE, None, NoData)]}

\* the values a header part may carry after its "="
SigValues ==
    {"100", "5000", "abc"}
    \cup {HexDigest(WEBHOOK_SECRET, ts \o "." \o Decode(b).text) :
            ts \in {"100", "5000"}, b \in {b \in SigBodies : b.kind = "json"}}

SigPartsSet ==
    {<<k>> : k \in {"t", "v0"}}
    \cup {<<k, "=", v>> : k \in {"t", "v0"}, v \in SigValues}
    \cup {<<k, "=", "100", "=", "x">> : k \in {"t", "v0"}}

\* no header, the empty header, and the headers of at most m parts
SigHeaders(m) ==
    {None, Some(<<>>)}
    \cup {Some(JoinWith(ps, ",")) :
            ps \in UNION {[1..n -> SigPartsSet] : n \in 1..m}}

InitSig ==
    /\ sig_in \in {Some([body |-> b, header |-> hd]) : b \in SigBodies, hd \in SigHeaders(MaxParts)}
    /\ sig_out = None
    /\ now \in {1900, 1901}
    /\ recent_results = <<>> /\ stored = <<>> /\ returned = NothingReturned
    /\ NoHandlers
    /\ EstIdle /\ TextIdle /\ AggIdle

\* one call of verify_webhook_signature at the current time
Verify ==
    /\ sig_in # None
    /\ sig_out = None
    /\ sig_out' = Some(VerifyWebhookSignature(sig_in[1].body, sig_in[1].header, now))
    /\ UNCHANGED <<sig_in, now, storeVars, handlerVars, estVars, textVars, aggVars>>

NextSig == Verify

SpecSig == InitSig /\ [][NextSig]_vars

-----------------------------------------------------------------------------
(* Specification of estimate_timing_from_conversation as a function *)

MaxEstTurns == 2
MaxEstPieces == 2

RECURSIVE TextsOver(_, _)
\* the texts made of at most k pieces
TextsOver(pieces, k) ==
    IF k = 0 THEN {<<>>}
    ELSE LET shorter == TextsOver(pieces, k - 1)
         IN  shorter \cup {t \o p : t \in shorter, p \in pieces}

\* "Um", " " and "..."
EstPieces == { <<"U", "m">>, <<" ">>, <<".", ".", ".">> }

\* the transcripts of at most n turns whose messages have at most k pieces
EstTranscripts(n, k) ==
    TranscriptsOver(
        {Turn("user", m, None) :
            m \in {None} \cup {Some(t) : t \in TextsOver(EstPieces, k)}}
        \cup {AgentTurn},
        n)

InitEst ==
    /\ est_in \in {Some(t) : t \in EstTranscripts(MaxEstTurns, MaxEstPieces)}
    /\ est_out = None
    /\ now = 0
    /\ recent_results = <<>> /\ stored = <<>> /\ returned = NothingReturned
    /\ NoHandlers
    /\ SigIdle /\ TextIdle /\ AggIdle

\* one call of estimate_timing_from_conversation
Estimate ==
    /\ est_in # None
    /\ est_out = None
    /\ est_out' = Some(EstimateTimingFromConversation(est_in[1]))
    /\ UNCHANGED <<est_in, now, storeVars, handlerVars, sigVars, textVars, aggVars>>

NextEst == Estimate

SpecEst == InitEst /\ [][NextEst]_vars

-----------------------------------------------------------------------------
(* Specification of the per-text analysers as functions *)

MaxPieces == 3

\* "um", "No", ".", "..", " ", ",", " - " and "a b c"
TextPieces ==
    { <<"u", "m">>, <<"N", "o">>, <<".">>, <<".", ".">>, <<" ">>, <<",">>,
      <<" ", "-", " ">>, <<"a", " ", "b", " ", "c">> }

\* the texts of at most k pieces
Texts(k) == TextsOver(TextPieces, k)

InitText ==
    /\ text_in \in {Some(t) : t \in Texts(MaxPieces)}
    /\ text_out = None
    /\ now = 0
    /\ recent_results = <<>> /\ stored = <<>> /\ returned = NothingReturned
    /\ NoHandlers
    /\ SigIdle /\ EstIdle /\ AggIdle

\* analyze_verbal_fluency(text)
FluencyCall ==
    /\ text_in # None
    /\ text_out' = Some([fn |-> "analyze_verbal_fluency",
                         value |-> AnalyzeVerbalFluency(text_in[1])])
    /\ UNCHANGED <<text_in, now, storeVars, handlerVars, sigVars, estVars, aggVars>>

\* analyze_communication_effectiveness(text)
EffectivenessCall ==
    /\ text_in # None
    /\ text_out' = Some([fn |-> "analyze_communication_effectiveness",
                         value |-> AnalyzeCommunicationEffectiveness(text_in[1])])
    /\ UNCHANGED <<text_in, now, storeVars, handlerVars, sigVars, estVars, aggVars>>

NextText == FluencyCall \/ EffectivenessCall

SpecText == InitText /\ [][NextText]_vars

-----------------------------------------------------------------------------
(* Specification of the session aggregation as a function of the segments  *)
(* (process_transcription_webhook, lines 414-576, in one piece)            *)

MaxAggSegs == 2

\* "I had eggs.": every score 100
AggText1 ==
    <<"I", " ", "h", "a", "d", " ", "e", "g", "g", "s", ".">>

\* "no no no no no no no": seven self-corrections: correction_frequency is floored at 0
AggText2 ==
    <<"n", "o", " ", "n", "o", " ", "n", "o", " ", "n", "o", " ",
      "n", "o", " ", "n", "o", " ", "n", "o">>

\* "um no..": a short hesitant answer
AggText3 ==
    <<"u", "m", " ", "n", "o", ".", ".">>

\* "the the the the the the the": six repetitions: repetition_control is floored at 0
AggText4 ==
    <<"t", "h", "e", " ", "t", "h", "e", " ", "t", "h", "e", " ",
      "t", "h", "e", " ", "t", "h", "e", " ", "t", "h", "e", " ",
      "t", "h", "e">>

\* "um.. no.. no.. no.. no.. no.. no.. no.. um.. um.. um.. um.. um.. um.. um.. um.. um.. um": eleven fillers, seven corrections, ten repetitions
AggText5 ==
    <<"u", "m", ".", ".", " ", "n", "o", ".", ".", " ", "n", "o",
      ".", ".", " ", "n", "o", ".", ".", " ", "n", "o", ".", ".",
      " ", "n", "o", ".", ".", " ", "n", "o", ".", ".", " ", "n",
      "o", ".", ".", " ", "u", "m", ".", ".", " ", "u", "m", ".",
      ".", " ", "u", "m", ".", ".", " ", "u", "m", ".", ".", " ",
      "u", "m", ".", ".", " ", "u", "m", ".", ".", " ", "u", "m",
      ".", ".", " ", "u", "m", ".", ".", " ", "u", "m", ".", ".",
      " ", "u", "m">>

AggTexts == {AggText1, AggText2, AggText3, AggText4, AggText5}

\* the lists of at most n user segments over the sample texts, with a
\* supplied duration of 0 s or 4.5 s
AggSegments(n) ==
    UNION {[1..k -> {[text |-> t, timestamp |-> 0, duration |-> d, estimated |-> None] :
                        t \in AggTexts, d \in SampleDurations}] : k \in 1..n}

RECURSIVE AnalyzeLoop(_, _, _)
\* lines 414-465: the accumulator after the loop over segments i, i+1, ...
AnalyzeLoop(segs, i, total) ==
    IF i > Len(segs) THEN total
    ELSE AnalyzeLoop(segs, i + 1, AddToTotals(total, AnalyzeSpeechSegment(segs[i])))

\* lines 414-576: the accumulator and, when the session completes, its report
SummariseSession(segs) ==
    LET total == AnalyzeLoop(segs, 1, EmptyTotals)
    IN  [total |-> total,
         report |-> IF SessionCompletes(total) THEN Some(SessionReport(total))
                    ELSE None]

InitAgg ==
    /\ agg_in \in {Some(segs) : segs \in AggSegments(MaxAggSegs)}
    /\ agg_out = None
    /\ now = 0
    /\ recent_results = <<>> /\ stored = <<>> /\ returned = NothingReturned
    /\ NoHandlers
    /\ SigIdle /\ EstIdle /\ TextIdle

\* one session processed from its segments
Summarise ==
    /\ agg_in # None
    /\ agg_out = None
    /\ agg_out' = Some(SummariseSession(agg_in[1]))
    /\ UNCHANGED <<agg_in, now, storeVars, handlerVars, sigVars, estVars, textVars>>

NextAgg == Summarise

SpecAgg == InitAgg /\ [][NextAgg]_vars

-----------------------------------------------------------------------------
(* Specification of two requests in flight on the one event loop: both     *)
(* coroutines may be waiting for their body, the loop resumes them in any  *)
(* order, and a resumed handler runs to its response                       *)

MaxConcTurns == 1

\* the turns of the concurrent sessions: "um no.." of 4.5 s, and
\* "I had eggs." with no duration
ConcTurns ==
    {Turn("user", Some(AggText3), Some(45)), Turn("user", Some(AggText1), None)}

\* transcriptions of at most n turns for two conversations, one with null
\* data, an audio event, a ping and a body that is no JSON
ConcRequests(n) ==
    {[signature |-> None, body |-> [kind |-> "json", value |-> p]] :
        p \in {Payload(TRUE, Some("post_call_transcription"), Data("object", Some(c), Some(t))) :
                  c \in {"conv_1", "conv_2"}, t \in TranscriptsOver(ConcTurns, n)}
              \cup {Payload(TRUE, Some("post_call_transcription"), NullData),
                    Payload(TRUE, Some("post_call_audio"), Data("object", Some("conv_1"), None)),
                    Payload(TRUE, Some("ping"), NoData)}}
    \cup {[signature |-> None,
           body |-> [kind |-> "bad_json", value |-> Payload(FALSE, None, NoData)]]}

InitConc ==
    /\ recent_results \in {<<>>, <<PriorResult>>}
    /\ stored = recent_results
    /\ returned = NothingReturned
    /\ now = 0
    /\ HandlersInit({"h1", "h2"})
    /\ SigIdle /\ EstIdle /\ TextIdle /\ AggIdle

NextConc ==
    \/ \E h \in Handlers :
          pc[h] = "idle" /\ \E req \in ConcRequests(MaxConcTurns) : Receive(h, req)
    \/ \E h \in Handlers : ParseBody(h)
    \/ \E h \in Handlers : StartTranscription(h)
    \/ \E h \in Handlers : AnalyzeNextSegment(h)
    \/ \E h \in Handlers : Aggregate(h)
    \/ \E h \in Handlers : ProcessAudio(h)
    \/ \E h \in Handlers : UnknownType(h)
    \/ \E h \in Handlers : Respond(h)

SpecConc == InitConc /\ [][NextConc]_vars

-----------------------------------------------------------------------------
(* Properties of the result buffer (SpecStore) *)

\* the last n elements of a sequence (all of it when it is shorter)
LastN(s, n) == SubSeq(s, Len(s) - Min(Len(s), n) + 1, Len(s))

\* C1: the buffer holds at most 10 results, namely the most recently stored
\* ones in insertion order (an 11th store evicts the oldest);
\* get_latest_results returns exactly the buffer with its count, and
\* get_latest_result returns the most recently stored result, or the status
\* no_results when nothing has been stored
C1_RecentResultsBuffer ==
    /\ Len(recent_results) <= 10
    /\ recent_results = LastN(stored, 10)
    /\ returned.call = "get_latest_results" =>
          /\ returned.value[1].status = "success"
          /\ returned.value[1].results = LastN(stored, 10)
          /\ returned.value[1].count = Min(Len(stored), 10)
    /\ returned.call = "get_latest_result" =>
          IF stored = <<>>
          THEN returned.value[1].status = "no_results"
          ELSE returned.value[1] =
                  [status |-> "success", result |-> stored[Len(stored)]]

\* an 11th result has been stored, the oldest is gone, and the list was read
C1_Witness ==
    /\ Len(stored) = 11
    /\ stored[1] # stored[2]
    /\ recent_results[1] = stored[2]
    /\ recent_results[10] = stored[11]
    /\ returned.call = "get_latest_results"
    /\ returned.value[1].count = 10

-----------------------------------------------------------------------------
(* Properties of the webhook handler (Spec) *)

TranscriptionType == Some("post_call_transcription")

\* the payload a request carries, when its body is a JSON object
IsObjectRequest(req) == req.body.kind = "json" /\ req.body.value.isobj

\* the request is a post_call_transcription whose data carries a transcript
IsTranscriptionRequest(req) ==
    /\ IsObjectRequest(req)
    /\ req.body.value.type = TranscriptionType
    /\ req.body.value.data.kind # "null"

\* the transcript of a transcription request (empty when data has none)
TranscriptOf(req) ==
    LET data == req.body.value.data
    IN  IF data.kind = "object" THEN GetOr(data.transcript, <<>>) ELSE <<>>

\* the positions of the user turns with a non-empty message
NonEmptyUserTurns(transcript) ==
    {i \in 1..Len(transcript) :
        /\ transcript[i].role = "user"
        /\ transcript[i].message # None
        /\ transcript[i].message[1] # <<>>}

\* the position of the k-th user turn with a non-empty message
UserTurnIndex(transcript, k) ==
    CHOOSE i \in NonEmptyUserTurns(transcript) :
        Cardinality({j \in NonEmptyUserTurns(transcript) : j <= i}) = k

\* the durations of the segments analysed so far, summed
AnalysedDuration(h) ==
    LET segs == total_analysis[h][1].segments
    IN  SumSeq([k \in 1..Len(segs) |-> segs[k].duration_seconds])

\* the results stored since the start
NewResults == {i \in 1..Len(stored) : stored[i] # PriorResult}

\* C2: a post_call_transcription call whose aggregation completes (total
\* duration > 0) appends exactly one result, and only once every user turn
\* with a non-empty message has been extracted and analysed; every other
\* call leaves the buffer unchanged
C2_OneAppendPerCompletedSession ==
    \A h \in Handlers :
        /\ appends[h] <= 1
        /\ Cardinality(NewResults) = appends[h]
        /\ appends[h] = 1 =>
              /\ IsTranscriptionRequest(request[h][1])
              /\ Len(total_analysis[h][1].segments)
                    = Cardinality(NonEmptyUserTurns(TranscriptOf(request[h][1])))
              /\ AnalysedDuration(h) > 0
              /\ stored[Len(stored)].conversation_id
                    = GetOr(request[h][1].body.value.data.conversation_id, "unknown")
              /\ stored[Len(stored)].analysis.segments
                    = total_analysis[h][1].segments
        /\ pc[h] = "done" =>
              (appends[h] = 1 <=>
                  /\ IsTranscriptionRequest(request[h][1])
                  /\ total_analysis[h] # None
                  /\ AnalysedDuration(h) > 0)

\* a session of two analysed turns has been stored after an earlier result
C2_Witness ==
    /\ pc["h1"] = "done"
    /\ appends["h1"] = 1
    /\ Len(total_analysis["h1"][1].segments) = 2
    /\ Len(recent_results) = 2
    /\ recent_results[1] = PriorResult

\* C3: a transcription with no user speech, or whose analysed durations sum
\* to 0, yields no session scores or interpretation, stores nothing and is
\* still answered 200; a session that has scores has total duration > 0
\* and at least one analysed segment
C3_EmptySessionYieldsNothing ==
    \A h \in Handlers :
        /\ ( /\ pc[h] = "done"
             /\ IsTranscriptionRequest(request[h][1])
             /\ \/ NonEmptyUserTurns(TranscriptOf(request[h][1])) = {}
                \/ total_analysis[h] # None /\ AnalysedDuration(h) = 0 )
           => /\ session[h] = None
              /\ appends[h] = 0
              /\ response[h].status_code = 200
        /\ session[h] # None =>
              /\ total_analysis[h][1].total_duration > 0
              /\ AnalysedDuration(h) > 0
              /\ Len(total_analysis[h][1].segments) >= 1

\* one session without user speech and one whose only segment lasts 0 s
\* have both been answered
C3_Witness ==
    /\ pc["h1"] = "done"
    /\ IsTranscriptionRequest(request["h1"][1])
    /\ response["h1"].status_code = 200
    /\ session["h1"] = None
    /\ total_analysis["h1"] # None
    /\ Len(total_analysis["h1"][1].segments) = 1
    /\ AnalysedDuration("h1") = 0


\* the request's signature header verifies at the current time
SignatureValid(req) == VerifyWebhookSignature(req.body, req.signature, now).result

\* processing the parsed payload raises: it is not an object, or the data of
\* a transcription or audio payload is null
ProcessingRaises(req) ==
    \/ ~req.body.value.isobj
    \/ /\ req.body.value.type \in {TranscriptionType, Some("post_call_audio")}
       /\ req.body.value.data.kind = "null"

\* the statuses the four-way mapping with a signature check allows
ClaimedStatuses(req) ==
    (IF req.body.kind # "json" THEN {400} ELSE {})
    \cup (IF ~SignatureValid(req) THEN {401} ELSE {})
    \cup (IF req.body.kind = "json" /\ SignatureValid(req)
          THEN (IF ProcessingRaises(req) THEN {500} ELSE {200})
          ELSE {})

\* C4: the response status is 400 when the body is not valid JSON, 401 when
\* the signature is missing or invalid, 500 when processing raises any other
\* error, and 200 otherwise
C4_StatusWithSignatureCheck ==
    \A h \in Handlers :
        pc[h] = "done" => response[h].status_code \in ClaimedStatuses(request[h][1])

\* the segments taken from a transcript are estimated: the transcript has a
\* user turn with a non-empty message and none of them has a duration > 0
NeedsEstimate(transcript) ==
    /\ NonEmptyUserTurns(transcript) # {}
    /\ \A i \in NonEmptyUserTurns(transcript) :
          transcript[i].duration = None \/ transcript[i].duration[1] <= 0

\* the handler has chosen the segments of a transcript
SegmentsChosen(h) ==
    /\ pc[h] \in {"loop", "respond", "done"}
    /\ IsTranscriptionRequest(request[h][1])

\* C6: the analysed segments come from estimate_timing_from_conversation
\* exactly when the transcript has a user turn with a non-empty message and
\* no such turn has a duration > 0; then every segment is marked estimated,
\* and otherwise every segment keeps the duration of its turn (0 when the
\* turn has none) and is marked not estimated
C6_EstimateIffNoRealTiming ==
    \A h \in Handlers :
        SegmentsChosen(h) =>
            LET transcript == TranscriptOf(request[h][1])
                segs == user_segments[h]
                analysed == IF total_analysis[h] = None THEN <<>>
                            ELSE total_analysis[h][1].segments
            IN  /\ Len(segs) = Cardinality(NonEmptyUserTurns(transcript))
                /\ has_real_timing[h] =
                      (\E i \in NonEmptyUserTurns(transcript) :
                          transcript[i].duration # None
                          /\ transcript[i].duration[1] > 0)
                /\ IF NeedsEstimate(transcript)
                   THEN /\ segs = EstimateTimingFromConversation(transcript)
                        /\ \A k \in 1..Len(segs) : segs[k].estimated = Some(TRUE)
                        /\ \A k \in 1..Len(analysed) : analysed[k].timing_estimated
                   ELSE /\ \A k \in 1..Len(segs) :
                              LET turn == transcript[UserTurnIndex(transcript, k)]
                              IN  /\ segs[k].estimated # Some(TRUE)
                                  /\ segs[k].duration =
                                        (IF turn.duration = None THEN 0
                                         ELSE turn.duration[1])
                        /\ \A k \in 1..Len(analysed) :
                              /\ ~analysed[k].timing_estimated
                              /\ analysed[k].duration_seconds = segs[k].duration

\* a transcript of two user turns without positive durations has been
\* analysed with estimated timing
C6_Witness ==
    /\ pc["h1"] = "respond"
    /\ IsTranscriptionRequest(request["h1"][1])
    /\ NeedsEstimate(TranscriptOf(request["h1"][1]))
    /\ Len(user_segments["h1"]) = 2
    /\ user_segments["h1"][2].duration > 0
    /\ user_segments["h1"][2].estimated = Some(TRUE)
    /\ Len(total_analysis["h1"][1].segments) = 2

\* C7: every segment that reaches analyze_speech_segment has a duration
\* >= 0, and when its user turn carried no duration it is marked estimated
\* and its duration is the estimator's, also when other user turns of the
\* transcript carry a positive duration
C7_UserSegmentInvariant ==
    \A h \in Handlers :
        (pc[h] = "loop" /\ IsTranscriptionRequest(request[h][1])) =>
            LET transcript == TranscriptOf(request[h][1])
                segs == user_segments[h]
            IN  \A k \in 1..Len(segs) :
                    LET turn == transcript[UserTurnIndex(transcript, k)]
                    IN  /\ segs[k].duration >= 0
                        /\ turn.duration = None =>
                              /\ segs[k].estimated = Some(TRUE)
                              /\ segs[k].duration = EstimatedDuration(turn.message[1])

-----------------------------------------------------------------------------
(* Properties of verify_webhook_signature (SpecSig) *)

\* the header is exactly t=<timestamp>,v0=<hash>
WellFormedHeader(header) ==
    /\ header # None
    /\ Len(header[1]) = 7
    /\ header[1][1] = "t" /\ header[1][2] = "="
    /\ header[1][3] \notin {",", "="}
    /\ header[1][4] = ","
    /\ header[1][5] = "v0" /\ header[1][6] = "="
    /\ header[1][7] \notin {",", "="}

\* C5: verify_webhook_signature returns True only when the header is
\* present and is t=<timestamp>,v0=<hash>, the timestamp is not older than
\* 1800 seconds and the hash is the HMAC-SHA256 of <timestamp>.<body> under
\* the secret; on every other input it returns False, and it never raises
C5_TrueOnlyForWellFormedFreshSigned ==
    sig_out # None =>
        LET body == sig_in[1].body
            header == sig_in[1].header
        IN  /\ sig_out[1].raised = ""
            /\ sig_out[1].result =
                  ( /\ WellFormedHeader(header)
                    /\ header[1][3] \in DOMAIN IntOfToken
                    /\ now - IntOfToken[header[1][3]] <= 1800
                    /\ body.kind # "bad_utf8"
                    /\ header[1][7] =
                          HexDigest(WEBHOOK_SECRET,
                                    header[1][3] \o "." \o ToString(body)) )

-----------------------------------------------------------------------------
(* Properties of estimate_timing_from_conversation (SpecEst) *)

\* C8: the estimator emits one segment per user turn with a non-empty
\* message, in order; each duration is 0.5 s per word + 1.0 s per pause
\* indicator + 0.5 s per hesitation word; the first timestamp is 0 and the
\* k-th is the sum over the earlier segments of (duration + 2.0 s), so the
\* timestamps are strictly increasing
C8_EstimatedTimeline ==
    est_out # None =>
        LET transcript == est_in[1]
            out == est_out[1]
        IN  /\ Len(out) = Cardinality(NonEmptyUserTurns(transcript))
            /\ \A k \in 1..Len(out) :
                  LET text == transcript[UserTurnIndex(transcript, k)].message[1]
                  IN  /\ out[k].text = text
                      /\ out[k].estimated = Some(TRUE)
                      /\ out[k].duration =
                            5 * WordCount(text) + 10 * PauseIndicators(text)
                            + 5 * HesitationWordCount(text)
                      /\ out[k].timestamp =
                            SumSeq([j \in 1..(k - 1) |-> out[j].duration + 20])
            /\ \A k \in 1..(Len(out) - 1) : out[k].timestamp < out[k + 1].timestamp

\* two user turns, "Um..." (one word, two pause indicators) and "Um" (one
\* hesitation word): the second starts 2 s after the first one's 2.5 s
C8_Witness ==
    /\ est_out # None
    /\ Len(est_in[1]) = 2
    /\ Len(est_out[1]) = 2
    /\ est_out[1][1].text = <<"U", "m", ".", ".", ".">>
    /\ est_out[1][1].duration = 25
    /\ est_out[1][2].text = <<"U", "m">>
    /\ est_out[1][2].duration = 10
    /\ est_out[1][2].timestamp = 45

-----------------------------------------------------------------------------
(* Properties of the per-text analysers (SpecText) *)

\* C9: fluency_disruptions is the sum of the three counts, and the fluency
\* score is 100 when the text has no words and otherwise
\* max(20, 100 - min(80, 200 * disruptions / word_count)), hence in [20, 100]
\* for any disruption count and any word count
C9_FluencyScore ==
    (text_out # None /\ text_out[1].fn = "analyze_verbal_fluency") =>
        LET v == text_out[1].value
            wc == WordCount(text_in[1])
            d == v.fluency_disruptions
            score == v.overall_fluency_score
        IN  /\ d = v.hesitation_frequency + v.revision_attempts + v.flow_interruptions
            /\ d >= 0
            /\ score.den > 0
            /\ IF wc = 0
               THEN score.num = 100 * score.den
               ELSE score.num * wc =
                       score.den * Max(20 * wc, 100 * wc - Min(80 * wc, 200 * d))
            /\ 20 * score.den <= score.num
            /\ score.num <= 100 * score.den
            /\ \A n \in 0..(4 * MaxPieces), w \in 0..(4 * MaxPieces) :
                  LET f == FluencyScore(n, w)
                  IN  /\ 20 * f.den <= f.num
                      /\ f.num <= 100 * f.den
                      /\ w = 0 => f.num = 100 * f.den

\* a text of four words with one disruption scores 50
C9_Witness ==
    /\ text_out # None
    /\ text_out[1].fn = "analyze_verbal_fluency"
    /\ WordCount(text_in[1]) = 4
    /\ text_out[1].value.fluency_disruptions = 1
    /\ text_out[1].value.overall_fluency_score.num
          = 50 * text_out[1].value.overall_fluency_score.den

\* C10: for a text with no sentence, average_sentence_length and
\* sentence_completion_rate are 0 and the clarity score is not reduced by
\* the completion-rate or sentence-length checks: it is 100, or 90 when
\* phrase_breaks > 0.3 * word count
C10_EmptySentenceListNotPenalised ==
    ( /\ text_out # None
      /\ text_out[1].fn = "analyze_communication_effectiveness"
      /\ Sentences(text_in[1]) = <<>> ) =>
        LET v == text_out[1].value
        IN  /\ v.average_sentence_length.num = 0
            /\ v.sentence_completion_rate.num = 0
            /\ v.message_clarity_score =
                  (IF v.phrase_breaks * 10 > WordCount(text_in[1]) * 3
                   THEN 90 ELSE 100)

-----------------------------------------------------------------------------
(* Properties of the session aggregation (SpecAgg) *)

\* the fraction lies in [0, 100]
InPercentRange(f) == f.den > 0 /\ 0 <= f.num /\ f.num <= 100 * f.den

\* C11: in every completed session each of the six session scores lies in
\* [0, 100], the six composite weights 0.25, 0.25, 0.20, 0.10, 0.10, 0.10
\* sum to exactly 1, and the composite score lies in [0, 100]
C11_ScoresAndCompositeInRange ==
    /\ Weights = [message_clarity |-> 25, verbal_fluency |-> 25,
                  sentence_completion |-> 20, repetition_control |-> 10,
                  correction_frequency |-> 10, filler_control |-> 10]
    /\ SumSeq([i \in 1..Len(ScoreOrder) |-> Weights[ScoreOrder[i]]]) = 100
    /\ (agg_out # None /\ agg_out[1].report # None) =>
          LET r == agg_out[1].report[1]
          IN  /\ Len(agg_out[1].total.segments) >= 1
              /\ DOMAIN r.session_scores =
                    {"message_clarity", "verbal_fluency", "sentence_completion",
                     "repetition_control", "correction_frequency", "filler_control"}
              /\ \A key \in DOMAIN r.session_scores :
                    InPercentRange(r.session_scores[key])
              /\ InPercentRange(r.composite_score)

\* a session of two segments with six repetitions each: repetition_control
\* is 0 and the composite is 90
C11_Witness ==
    /\ agg_out # None
    /\ agg_out[1].report # None
    /\ Len(agg_out[1].total.segments) = 2
    /\ agg_out[1].total.segments[1].language_patterns.word_repetitions = 6
    /\ agg_out[1].report[1].session_scores["repetition_control"].num = 0
    /\ agg_out[1].report[1].composite_score.num
          = 90 * agg_out[1].report[1].composite_score.den

Tiers ==
    {"Excellent communication effectiveness",
     "Good communication with minor challenges",
     "Moderate communication challenges present",
     "Significant communication support needed"}

\* the composite score lies in the band of the tier
InBand(tier, c) ==
    CASE tier = "Excellent communication effectiveness" -> FracGe(c, 80)
      [] tier = "Good communication with minor challenges" ->
            FracGe(c, 60) /\ FracLt(c, 80)
      [] tier = "Moderate communication challenges present" ->
            FracGe(c, 40) /\ FracLt(c, 60)
      [] tier = "Significant communication support needed" -> FracLt(c, 40)

TierRank(tier) ==
    CASE tier = "Excellent communication effectiveness" -> 4
      [] tier = "Good communication with minor challenges" -> 3
      [] tier = "Moderate communication challenges present" -> 2
      [] tier = "Significant communication support needed" -> 1

\* the closing remark that goes with a tier
RemarkOfTier(tier) ==
    CASE tier = "Excellent communication effectiveness" ->
            "Continue current practice - excellent progress!"
      [] tier = "Good communication with minor challenges" ->
            "Focus on identified challenge areas"
      [] OTHER -> "Consider more intensive therapy support"

\* C12: for every composite score exactly one of the four tiers is chosen
\* (>= 80, [60, 80), [40, 60), < 40), the tier is monotone in the score, and
\* the one closing remark is determined by the tier alone
C12_OneTierOneRemark ==
    /\ (agg_out # None /\ agg_out[1].report # None) =>
          LET r == agg_out[1].report[1]
          IN  /\ r.interpretation \in Tiers
              /\ {tier \in Tiers : InBand(tier, r.composite_score)} = {r.interpretation}
              /\ r.closing_remark = RemarkOfTier(r.interpretation)
    /\ \A n \in 0..200 :
          LET c == Frac(n, 2)
          IN  /\ {tier \in Tiers : InBand(tier, c)} = {Interpretation(c)}
              /\ ClosingRemark(c) = RemarkOfTier(Interpretation(c))
              /\ n < 200 =>
                    TierRank(Interpretation(c)) <= TierRank(Interpretation(Frac(n + 1, 2)))

\* a session whose composite is exactly 80 is rated Excellent
C12_Witness ==
    /\ agg_out # None
    /\ agg_out[1].report # None
    /\ agg_out[1].report[1].composite_score.num
          = 80 * agg_out[1].report[1].composite_score.den
    /\ agg_out[1].report[1].interpretation = "Excellent communication effectiveness"
    /\ agg_out[1].report[1].closing_remark
          = "Continue current practice - excellent progress!"


-----------------------------------------------------------------------------
(* Properties of what a session stores (Spec) *)

\* C13: every result a session appends is a record {conversation_id,
\* timestamp, analysis} whose analysis carries, besides the totals and the
\* ordered segment analyses, the six averaged session scores, the composite
\* score and the interpretation tier computed for the session
C13_StoredAnalysisIsSessionSummary ==
    \A h \in Handlers :
        appends[h] = 1 =>
            LET result == stored[Len(stored)]
            IN  /\ DOMAIN result = {"conversation_id", "timestamp", "analysis"}
                /\ result.analysis.segments = total_analysis[h][1].segments
                /\ result.analysis.total_words = total_analysis[h][1].total_words
                /\ result.analysis.total_duration = total_analysis[h][1].total_duration
                /\ result.analysis.total_pauses = total_analysis[h][1].total_pauses
                /\ {"session_scores", "composite_score", "interpretation"}
                      \subseteq DOMAIN result.analysis
                /\ result.analysis.session_scores = session[h][1].session_scores
                /\ result.analysis.composite_score = session[h][1].composite_score
                /\ result.analysis.interpretation = session[h][1].interpretation


-----------------------------------------------------------------------------
(* Properties of concurrent requests (SpecConc) *)

\* the accumulator a request yields when it is the only one processed
AnalysisAlone(req) ==
    AnalyzeLoop(SegmentsToAnalyse(TranscriptOf(req)), 1, EmptyTotals)

\* the handlers that have appended a result, in the order they completed;
\* the handler the loop is executing has not answered yet and comes last
CompletionOrder ==
    LET answered == SelectSeq(finished, LAMBDA h : appends[h] = 1)
    IN  IF running # None /\ appends[running[1]] = 1
        THEN Append(answered, running[1])
        ELSE answered

\* C14: under any interleaving of two requests, the analysis stored for a
\* session is the one the request yields when processed alone, whatever
\* the other request and the buffer hold; no append is lost or duplicated;
\* and the buffer holds the stored sessions in the order their processing
\* completed
C14_ConcurrentRequestsIsolated ==
    LET by == CompletionOrder
        base == Len(recent_results) - Len(by)
    IN  /\ base \in {0, 1}
        /\ base = 1 => recent_results[1] = PriorResult
        /\ \A h \in Handlers : appends[h] <= 1
        /\ Len(by) = Cardinality({h \in Handlers : appends[h] = 1})
        /\ \A i \in 1..Len(by) :
              LET req == request[by[i]][1]
                  result == recent_results[base + i]
              IN  /\ IsTranscriptionRequest(req)
                  /\ result.analysis = AnalysisAlone(req)
                  /\ result.conversation_id
                        = GetOr(req.body.value.data.conversation_id, "unknown")
        /\ \A h \in Handlers :
              ( /\ pc[h] = "done"
                /\ IsTranscriptionRequest(request[h][1])
                /\ SessionCompletes(AnalysisAlone(request[h][1])) ) => appends[h] = 1

\* both handlers have stored a session, of different length and for
\* different conversations, and h2 completed before h1
C14_Witness ==
    /\ finished = <<"h2", "h1">>
    /\ appends["h1"] = 1 /\ appends["h2"] = 1
    /\ Len(recent_results) = 3
    /\ recent_results[2].conversation_id = "conv_2"
    /\ recent_results[3].conversation_id = "conv_1"
    /\ request["h2"][1].body.value.data.conversation_id = Some("conv_2")
    /\ recent_results[2].analysis # recent_results[3].analysis


-----------------------------------------------------------------------------
(* Properties of the sample fixture (Spec) *)

\* the handler has processed the request that test_webhook.py posts
FixtureProcessed(h) ==
    /\ request[h] = Some(SampleRequest)
    /\ pc[h] \in {"respond", "done"}

\* the durations the fixture supplies for its three user turns are used
FixtureUsesSuppliedDurations(h) ==
    /\ has_real_timing[h]
    /\ Len(user_segments[h]) = 3
    /\ [k \in 1..3 |-> user_segments[h][k].duration] = <<82, 63, 45>>
    /\ \A k \in 1..3 : user_segments[h][k].estimated = None
    /\ total_analysis[h] # None
    /\ Len(total_analysis[h][1].segments) = 3
    /\ \A k \in 1..3 : ~total_analysis[h][1].segments[k].timing_estimated
    /\ total_analysis[h][1].total_duration = 190
    /\ session[h] # None

\* C15 as stated: for the six-turn sample fixture the supplied durations
\* 8.2, 6.3 and 4.5 are used, the user segments have 9, 8 and 8 words,
\* total_words is 25 and total_duration 19.0, the overall speech rate is
\* 25/19 x 60, and the speech rate is reported as below normal
C15_FixtureTotalsAsStated ==
    \A h \in Handlers :
        FixtureProcessed(h) =>
            /\ FixtureUsesSuppliedDurations(h)
            /\ [k \in 1..3 |-> total_analysis[h][1].segments[k].word_count] = <<9, 8, 8>>
            /\ total_analysis[h][1].total_words = 25
            /\ session[h][1].overall_speech_rate.num * 19
                  = 25 * 60 * session[h][1].overall_speech_rate.den
            /\ session[h][1].rate_below_normal

\* C15 (amended): for the six-turn sample fixture the supplied durations
\* 8.2, 6.3 and 4.5 are used, the user segments have 16, 9 and 9 words,
\* total_words is 34 and total_duration 19.0, the overall speech rate is
\* 34/19 x 60 (about 107.4 WPM), and the speech rate is reported as within
\* the normal range
C15_FixtureTotals ==
    \A h \in Handlers :
        FixtureProcessed(h) =>
            /\ FixtureUsesSuppliedDurations(h)
            /\ [k \in 1..3 |-> total_analysis[h][1].segments[k].word_count] = <<16, 9, 9>>
            /\ total_analysis[h][1].total_words = 34
            /\ session[h][1].overall_speech_rate.num * 19
                  = 34 * 60 * session[h][1].overall_speech_rate.den
            /\ FracGe(session[h][1].overall_speech_rate, 100)
            /\ ~session[h][1].rate_below_normal

\* the fixture has been processed, stored and answered 200
C15_Witness ==
    /\ request["h1"] = Some(SampleRequest)
    /\ pc["h1"] = "done"
    /\ response["h1"] = ReceivedResponse
    /\ appends["h1"] = 1
    /\ recent_results[Len(recent_results)].conversation_id = "test_conv_12345"
    /\ recent_results[Len(recent_results)].analysis.total_words = 34


-----------------------------------------------------------------------------
(* Properties of the divisions (Spec) *)

\* the divisors of one segment analysis are positive, and each guarded
\* quotient has its default where the guard keeps the division away
SegmentDivisionsGuarded(sa) ==
    /\ sa.duration_seconds <= 0 => sa.speech_rate_wpm = 0
    /\ sa.speech_rate_wpm >= 0
    /\ sa.speech_density.den = Max(sa.duration_seconds, 10)
    /\ sa.speech_density.den > 0
    /\ sa.avg_word_length.den = Max(sa.word_count, 1)
    /\ sa.avg_word_length.den > 0
    /\ sa.communication_effectiveness.average_sentence_length.den > 0
    /\ sa.communication_effectiveness.sentence_completion_rate.den > 0
    /\ Sentences(sa.text) = <<>> =>
          /\ sa.communication_effectiveness.average_sentence_length = Frac(0, 1)
          /\ sa.communication_effectiveness.sentence_completion_rate = Frac(0, 1)
    /\ sa.verbal_fluency.overall_fluency_score.den > 0
    /\ sa.word_count = 0 => sa.verbal_fluency.overall_fluency_score = Frac(100, 1)

\* C16: while a transcript is processed no division has a zero divisor:
\* the speech rate is 0 when the duration is <= 0, speech_density divides
\* by max(duration, 1), avg_word_length by max(word_count, 1), the sentence
\* averages and the fluency rate are computed only for a non-empty
\* sentence list and a positive word count, the overall rate only when
\* total_duration > 0, pause_rate divides by max(total_words, 1), the
\* session averages are taken only over at least one segment; and the
\* processing of a transcription never raises: it is answered 200
C16_NoZeroDivisor ==
    \A h \in Handlers :
        /\ total_analysis[h] # None =>
              \A k \in 1..Len(total_analysis[h][1].segments) :
                  SegmentDivisionsGuarded(total_analysis[h][1].segments[k])
        /\ session[h] # None =>
              LET total == total_analysis[h][1]
                  r == session[h][1]
              IN  /\ total.total_duration > 0
                  /\ r.overall_speech_rate.den = total.total_duration
                  /\ r.pause_rate.den = Max(total.total_words, 1)
                  /\ r.pause_rate.den > 0
                  /\ Len(total.segments) > 0
                  /\ \A key \in DOMAIN r.session_scores : r.session_scores[key].den > 0
                  /\ r.composite_score.den > 0
        /\ (pc[h] = "done" /\ IsTranscriptionRequest(request[h][1])) =>
              response[h] = ReceivedResponse

\* a session of a blank message of 4.5 s (no words, no sentences) and a
\* message of duration 0 has been reported and answered 200
C16_Witness ==
    /\ pc["h1"] = "done"
    /\ response["h1"] = ReceivedResponse
    /\ session["h1"] # None
    /\ Len(total_analysis["h1"][1].segments) = 2
    /\ total_analysis["h1"][1].segments[1].word_count = 0
    /\ total_analysis["h1"][1].segments[1].duration_seconds = 45
    /\ total_analysis["h1"][1].segments[2].duration_seconds = 0
    /\ total_analysis["h1"][1].segments[2].word_count = 2
    /\ total_analysis["h1"][1].segments[2].speech_rate_wpm = 0


-----------------------------------------------------------------------------
(* Properties of the session accumulator (Spec) *)

\* the accumulator holds one analysis per user segment processed so far,
\* in transcript order, and its totals are the sums over those analyses
AccumulatorConsistent(total, segs, transcript) ==
    LET n == Len(total.segments)
    IN  /\ n <= Len(segs)
        /\ n <= Cardinality(NonEmptyUserTurns(transcript))
        /\ \A k \in 1..n :
              /\ total.segments[k].text
                    = transcript[UserTurnIndex(transcript, k)].message[1]
              /\ total.segments[k].text = segs[k].text
              /\ total.segments[k].duration_seconds = segs[k].duration
              /\ total.segments[k].word_count = WordCount(segs[k].text)
        /\ total.total_words = SumSeq([k \in 1..n |-> total.segments[k].word_count])
        /\ total.total_duration
              = SumSeq([k \in 1..n |-> total.segments[k].duration_seconds])
        /\ total.total_pauses = SumSeq([k \in 1..n |-> total.segments[k].pause_count])

\* the state part of C17
SegmentListInvariant ==
    \A h \in Handlers :
        /\ total_analysis[h] # None =>
              AccumulatorConsistent(total_analysis[h][1], user_segments[h],
                                    TranscriptOf(request[h][1]))
        /\ pc[h] \in {"respond", "done"} /\ total_analysis[h] # None =>
              Len(total_analysis[h][1].segments) = Len(user_segments[h])
        /\ appends[h] = 1 =>
              /\ stored[Len(stored)].analysis = total_analysis[h][1]
              /\ recent_results[Len(recent_results)].analysis = total_analysis[h][1]
              /\ session[h] # None

\* the step part of C17: a step leaves every analysis already in an
\* accumulator or in a stored result as it is
SegmentAnalysesKept ==
    /\ \A h \in Handlers :
          total_analysis[h] # None =>
              /\ total_analysis'[h] # None
              /\ Len(total_analysis'[h][1].segments) >= Len(total_analysis[h][1].segments)
              /\ \A k \in 1..Len(total_analysis[h][1].segments) :
                    total_analysis'[h][1].segments[k] = total_analysis[h][1].segments[k]
    /\ Len(stored') >= Len(stored)
    /\ \A i \in 1..Len(stored) : stored'[i].analysis = stored[i].analysis
    /\ \A i \in 1..Len(recent_results) :
          \E j \in 1..Len(recent_results') :
              recent_results'[j].analysis = recent_results[i].analysis

\* C17: at every point of the per-segment loop and in every stored result
\* the segment list holds exactly one analysis per user segment processed
\* so far, in transcript order, and total_words, total_duration and
\* total_pauses are the sums over those analyses; once appended, an
\* analysis is never changed by the aggregation, interpretation or storing
C17_SegmentListAndTotals ==
    [](SegmentListInvariant) /\ [][SegmentAnalysesKept]_vars

\* the fixture in the middle of its loop: two of three segments analysed,
\* 16 + 9 words and 8.2 + 6.3 seconds so far
C17_Witness ==
    /\ request["h1"] = Some(SampleRequest)
    /\ pc["h1"] = "loop"
    /\ Len(user_segments["h1"]) = 3
    /\ Len(total_analysis["h1"][1].segments) = 2
    /\ total_analysis["h1"][1].segments[1].text = SampleMessage2
    /\ total_analysis["h1"][1].segments[2].text = SampleMessage4
    /\ total_analysis["h1"][1].total_words = 25
    /\ total_analysis["h1"][1].total_duration = 145

=============================================================================
